---- MODULE Spec2Model ----
(***************************************************************************)
(* State-machine model of the SuccessFactors -> BigQuery ingestion run     *)
(* (ingest.py, bigquery_sq_utils.py, ssff_utils.py).                       *)
(*                                                                         *)
(* Text (SQL, identifiers, descriptions) is modelled as a sequence of      *)
(* tokens; concatenation of text is concatenation of sequences.  Python's  *)
(* None is the string "None"; a raised exception is the result record      *)
(* [ok |-> FALSE, ...].                                                    *)
(***************************************************************************)
EXTENDS Integers, Sequences, FiniteSets, TLC

VARIABLES
    metadata,         \* the $metadata document the remote service returns
    server,           \* the remote data endpoint: skip token -> __next token
    pc,               \* position of __main__
    run,              \* number of the current run (one process start each)
    parsed_metadata,  \* the descriptor returned by process_metadata
    datasets,         \* warehouse: the dataset ids that exist
    tables,           \* warehouse: table id -> table, or NoTable
    queries,          \* the SQL text synthesised by each step of this run
    load_schema,      \* the schema given to the load job of this run
    sf_odata_url,     \* get_entity_data: the URL of the next request
    next_page,        \* get_entity_data: loop variable
    page_number,      \* get_entity_data: loop variable
    response,         \* get_entity_data: the page received and not yet stored
    requests,         \* the URLs requested in this run, in order
    stores,           \* the store_data calls of this run, in order
    data_files,       \* local ./data directory: page number -> payload
    gcs,              \* objects in the temporary bucket
    metadata_file,    \* local ./metadata/<entity>_metadata.json
    pipeline,         \* the pipeline description in the pipelines bucket
    scheduled,        \* scheduled queries registered in the transfer service
    log,              \* the warehouse operations issued in this run
    error             \* the exception that ended this run, or "None"

vars == <<metadata, server, pc, run, parsed_metadata, datasets, tables,
          queries, load_schema, sf_odata_url, next_page, page_number,
          response, requests, stores, data_files, gcs, metadata_file, pipeline,
          scheduled,
          log, error>>

None == "None"

-----------------------------------------------------------------------------
(* Bounds *)

MaxProps == 2     \* Property nodes in a metadata document
MaxToken == 2     \* continuation tokens the data endpoint can hand out
MaxRuns  == 2     \* process starts against the same warehouse

-----------------------------------------------------------------------------
(* Generic helpers on sequences *)

Range(s) == {s[i] : i \in DOMAIN s}

\* str.join over pieces of text: sep.join(parts)
RECURSIVE Join(_, _)
Join(parts, sep) ==
    IF parts = <<>> THEN <<>>
    ELSE IF Len(parts) = 1 THEN Head(parts)
    ELSE Head(parts) \o sep \o Join(Tail(parts), sep)

\* the elements of s that satisfy Test, in order (a list comprehension's if)
SelectSeqBy(s, Test(_)) ==
    LET F[i \in 0..Len(s)] ==
            IF i = 0 THEN <<>>
            ELSE IF Test(s[i]) THEN Append(F[i - 1], s[i]) ELSE F[i - 1]
    IN  F[Len(s)]

\* str.find: index (from 0) of the first occurrence of c, or -1
find(s, c) ==
    IF \E i \in DOMAIN s : s[i] = c
    THEN (CHOOSE i \in DOMAIN s : s[i] = c /\ \A j \in 1..(i - 1) : s[j] # c) - 1
    ELSE -1

\* Python slice s[a:b] with 0-based, possibly negative, indices
Slice(s, a, b) ==
    LET n  == Len(s)
        lo == IF a < 0 THEN (IF n + a < 0 THEN 0 ELSE n + a) ELSE (IF a > n THEN n ELSE a)
        hi == IF b < 0 THEN (IF n + b < 0 THEN 0 ELSE n + b) ELSE (IF b > n THEN n ELSE b)
    IN  IF hi <= lo THEN <<>> ELSE SubSeq(s, lo + 1, hi)

\* str.lower on the characters the module tags use
LowerChar(c) ==
    CASE c = "E" -> "e" [] c = "C" -> "c" [] c = "P" -> "p" [] c = "M" -> "m"
      [] OTHER -> c

lower(s) == [i \in DOMAIN s |-> LowerChar(s[i])]

\* str.strip
RECURSIVE lstrip(_)
lstrip(s) == IF s # <<>> /\ Head(s) = " " THEN lstrip(Tail(s)) ELSE s
RECURSIVE rstrip(_)
rstrip(s) == IF s # <<>> /\ s[Len(s)] = " " THEN rstrip(SubSeq(s, 1, Len(s) - 1)) ELSE s
strip(s) == rstrip(lstrip(s))

-----------------------------------------------------------------------------
(* Type Mapper: ingest.py data_type_mapping *)

data_type_mapping ==
    ("Edm.Binary" :> "BYTES") @@ ("Edm.Boolean" :> "BOOL") @@
    ("Edm.DateTime" :> "DATETIME") @@ ("Edm.Time" :> "TIMESTAMP") @@
    ("Edm.Int64" :> "INTEGER") @@ ("Edm.Decimal" :> "DECIMAL") @@
    ("Edm.Double" :> "FLOAT64") @@ ("Edm.Float" :> "FLOAT64") @@
    ("Edm.Single" :> "FLOAT64") @@ ("Edm.Int32" :> "INTEGER") @@
    ("Edm.Byte" :> "INTEGER") @@ ("Edm.Int16" :> "INTEGER") @@
    ("Edm.SByte" :> "INTEGER") @@ ("Edm.DateTimeOffset" :> "TIMESTAMP") @@
    ("Edm.Guid" :> "STRING") @@ ("Edm.String" :> "STRING")

\* data_type_mapping.get(field['@Type']): None for a key that is not there
data_type_mapping_get(source_type) ==
    IF source_type \in DOMAIN data_type_mapping
    THEN data_type_mapping[source_type] ELSE None

-----------------------------------------------------------------------------
(* The $metadata document, as xmltodict.parse hands it to process_metadata *)

PropNames == <<"userId", "startDate", "isActive", "photo">>

EntityName == "EmpJob"

\* source types the documents of the model draw from: one per warehouse
\* type of the mapping, and one the mapping does not know
SourceTypes == {"Edm.String", "Edm.Boolean", "Edm.DateTime", "Edm.DateTimeOffset",
                "Edm.Double", "Edm.Binary", "Edm.Int32", "Edm.Geography"}

\* module tags: text with a parenthesised module code, and text without one
ModuleTags == {<<"E", "C", " ", "(", "E", "C", ")">>, <<"P", "M">>}

DefaultTags == [kind |-> "str", value |-> <<<<"E", "C", " ", "(", "E", "C", ")">>>>]

\* sap:tag is a string, a list of strings, or anything else (a dict, None);
\* "missing" is a document without the sap:tagcollection node
TagShapes ==
    {[kind |-> "str", value |-> <<t>>] : t \in ModuleTags} \cup
    {[kind |-> "list", value |-> <<t, <<"P", "M">>>>] : t \in ModuleTags} \cup
    {[kind |-> "other", value |-> <<>>], [kind |-> "missing", value |-> <<>>]}

Property(i, type, visible, nullable, picklist) ==
    [Name |-> PropNames[i], Type |-> type, visible |-> visible,
     Nullable |-> nullable, label |-> PropNames[i], picklist |-> picklist]

PositionType(n) == IF n = 1 THEN "Edm.String" ELSE "Edm.Boolean"

\* Property lists of n visible nodes, one of them of any source type
TypedProps(n) ==
    {[i \in 1..n |-> Property(i, IF i = j THEN t ELSE PositionType(i), "true", "true", "")] :
        j \in 1..n, t \in SourceTypes}

\* Property lists of n nodes, each visible or not
RECURSIVE HiddenProps(_)
HiddenProps(n) ==
    IF n = 0 THEN {<<>>}
    ELSE {Append(ps, Property(n, PositionType(n), v, "false", "")) :
            ps \in HiddenProps(n - 1), v \in {"true", "false"}}

\* Property lists of n visible nodes, each nullable or not, with or without
\* a pick list
RECURSIVE LabelledProps(_)
LabelledProps(n) ==
    IF n = 0 THEN {<<>>}
    ELSE {Append(ps, Property(n, PositionType(n), "true", nl, pl)) :
            ps \in LabelledProps(n - 1), nl \in {"true", "false"}, pl \in {"", "status"}}

DefaultProps ==
    <<Property(1, "Edm.String", "true", "false", ""),
      Property(2, "Edm.Boolean", "true", "true", "")>>

\* Key/PropertyRef: xmltodict gives a dict for one node and a list for several
DictKey(name) == [kind |-> "dict", names |-> <<name>>]
ListKey(names) == [kind |-> "list", names |-> names]

DefaultKey == DictKey(PropNames[1])

KeyRefs(props) ==
    LET names == {props[i].Name : i \in DOMAIN props}
    IN  {DictKey(k) : k \in names} \cup
        {ListKey(<<p[1], p[2]>>) : p \in {q \in names \X names : q[1] # q[2]}}

Document(props, key, tags, shape) ==
    [Name |-> EntityName, LongDescription |-> "Job information",
     Property |-> props, PropertyRef |-> key, tags |-> tags,
     PropertyShape |-> shape]

\* The documents of the model: one family per attribute that varies
Documents ==
    {Document(ps, DefaultKey, DefaultTags, "list") :
        ps \in UNION {TypedProps(n) \cup LabelledProps(n) : n \in 1..MaxProps}}
    \cup
    UNION {{Document(ps, k, DefaultTags, "list") : k \in KeyRefs(ps)} :
              ps \in UNION {HiddenProps(n) : n \in 1..MaxProps}}
    \cup
    {Document(DefaultProps, DefaultKey, t, s) : t \in TagShapes, s \in {"list", "dict"}}

-----------------------------------------------------------------------------
(* Metadata Parser: ingest.py process_metadata *)

get_columns_description(field) ==
    IF field.picklist # ""
    THEN <<field.label, ". PickList: ", field.picklist, ".">>
    ELSE <<field.label, ".">>

NoDescriptor ==
    [name |-> None, keys |-> <<>>, fields |-> <<>>, module |-> <<>>, description |-> None]

Raise(exc) == [ok |-> FALSE, error |-> exc, value |-> NoDescriptor]
Return(v) == [ok |-> TRUE, error |-> None, value |-> v]

IsVisible(field) == field.visible = "true"

\* the keys of the descriptor: every PropertyRef, whatever its Property says
entity_keys(doc) == doc.PropertyRef.names

field_descriptor(field) ==
    [name |-> field.Name,
     type |-> data_type_mapping_get(field.Type),
     mode |-> IF field.Nullable = "true" THEN "" ELSE "NOT NULL",
     description |-> get_columns_description(field)]

entity_fields(doc) ==
    LET visible == SelectSeqBy(doc.Property, IsVisible)
    IN  [i \in DOMAIN visible |-> field_descriptor(visible[i])]

process_metadata(doc) ==
    IF doc.tags.kind = "missing" THEN Raise("KeyError")
    ELSE IF doc.PropertyShape = "dict" THEN Raise("TypeError")
    ELSE IF doc.tags.kind \notin {"list", "str"}
         THEN Raise("Could not extract SSFF module name from the metadata")
    ELSE Return([name |-> doc.Name,
                 keys |-> entity_keys(doc),
                 fields |-> entity_fields(doc),
                 module |-> doc.tags.value[1],
                 description |-> doc.LongDescription])

-----------------------------------------------------------------------------
(* Identifiers of datasets and tables *)

PROJECT_ID == "raw-project"        \* os.getenv('PROJECT_ID')
RF_PROJECT_ID == "rf-project"      \* os.getenv('RF_PROJECT_ID')

\* module[module.find("(")+1: module.find(")")].lower().strip()
dataset_module(module) ==
    strip(lower(Slice(module, find(module, "(") + 1, find(module, ")"))))

dataset_id_of(project, module) == <<project, ".", "ds_sfsf_">> \o dataset_module(module)

final_table_id_of(md) == dataset_id_of(PROJECT_ID, md.module) \o <<".", md.name>>
refined_table_id_of(md) == dataset_id_of(RF_PROJECT_ID, md.module) \o <<".", md.name>>
raw_table_id_of(md) == dataset_id_of(PROJECT_ID, md.module) \o <<".", "temp_", md.name>>

\* str.split('.'): the pieces of text between the "." tokens
RECURSIVE SplitBy(_, _)
SplitBy(s, sep) ==
    IF \E i \in DOMAIN s : s[i] = sep
    THEN LET i == CHOOSE j \in DOMAIN s : s[j] = sep /\ \A k \in 1..(j - 1) : s[k] # sep
         IN  <<SubSeq(s, 1, i - 1)>> \o SplitBy(SubSeq(s, i + 1, Len(s)), sep)
    ELSE <<s>>

-----------------------------------------------------------------------------
(* DDL Synthesizer *)

Singletons(names) == [i \in DOMAIN names |-> <<names[i]>>]

HasNoneType(fields) == \E i \in DOMAIN fields : fields[i].type = None

\* field['name'] + " " + field['type'] + " " + field['mode'] + " " + "OPTIONS(...)"
typed_column(field) ==
    <<field.name, " ", field.type, " ", field.mode, " ", "OPTIONS(description='">>
        \o field.description \o <<"')">>

typed_columns(fields) == Join([i \in DOMAIN fields |-> typed_column(fields[i])], <<",">>)

cluster_clause(keys) == <<"CLUSTER BY ">> \o Join(Singletons(keys), <<",">>)

PartitionClause == "PARTITION BY DATE_TRUNC(_PARTITIONTIME, DAY)"

\* a mutant: the final table's DDL without its partition clause
final_table_ddl_unpartitioned(table_id, md) ==
    <<"CREATE TABLE IF NOT EXISTS ">> \o table_id \o <<"(">>
        \o typed_columns(md.fields) \o <<")">>
        \o cluster_clause(md.keys)
        \o <<"OPTIONS (", "description='", md.description, "'", ");">>

\* the ddl f-string of create_bq_final_table
final_table_ddl(table_id, md) ==
    <<"CREATE TABLE IF NOT EXISTS ">> \o table_id \o <<"(">>
        \o typed_columns(md.fields) \o <<")">>
        \o <<PartitionClause>>
        \o cluster_clause(md.keys)
        \o <<"OPTIONS (", "description='", md.description, "'", ");">>

\* the ddl f-string of create_bq_refined_table
refined_table_ddl(table_id, md) ==
    <<"CREATE TABLE IF NOT EXISTS ">> \o table_id \o <<"(">>
        \o typed_columns(md.fields) \o <<")">>
        \o cluster_clause(md.keys)
        \o <<"OPTIONS (", "description='", md.description, "'", ");">>

\* a mutant: every field widened to STRING, boolean fields too
widen_all(fields) == [i \in DOMAIN fields |-> [fields[i] EXCEPT !.type = "STRING"]]

\* for field in fields: if field['type'] != 'BOOL': field.update({'type': 'STRING'})
widen(fields) ==
    [i \in DOMAIN fields |->
        IF fields[i].type # "BOOL" THEN [fields[i] EXCEPT !.type = "STRING"] ELSE fields[i]]

raw_column(field) == <<field.name, " ", field.type>>

\* the ddl f-string of create_bq_raw_table
raw_table_ddl(table_id, fields) ==
    <<"CREATE TABLE IF NOT EXISTS ">> \o table_id \o <<"(">>
        \o Join([i \in DOMAIN fields |-> raw_column(fields[i])], <<",">>) \o <<");">>

\* LoadJobConfig(schema=[SchemaField(name, "STRING" if type != 'BOOL' else type)])
load_job_schema(fields) ==
    [i \in DOMAIN fields |->
        [name |-> fields[i].name,
         field_type |-> IF fields[i].type # "BOOL" THEN "STRING" ELSE fields[i].type]]

-----------------------------------------------------------------------------
(* The warehouse, as the client calls of the code see it *)

NoTables == [id \in {} |-> 0]

\* the type names the warehouse reports in a table's schema (field.field_type)
\* for the type names a DDL statement declares
field_type_of(ddl_type) ==
    CASE ddl_type = "FLOAT64" -> "FLOAT"
      [] ddl_type = "BOOL"    -> "BOOLEAN"
      [] ddl_type = "DECIMAL" -> "NUMERIC"
      [] OTHER                -> ddl_type

schema_of(fields) ==
    [i \in DOMAIN fields |->
        [name |-> fields[i].name, field_type |-> field_type_of(fields[i].type)]]

NewTable(fields, partitioned, clustering) ==
    [schema |-> schema_of(fields), partitioned |-> partitioned,
     clustering |-> clustering, rows |-> {}]

\* CREATE TABLE IF NOT EXISTS, executed by the warehouse
create_table_if_not_exists(tbls, table_id, table) ==
    IF table_id \in DOMAIN tbls THEN tbls
    ELSE [id \in DOMAIN tbls \cup {table_id} |-> IF id = table_id THEN table ELSE tbls[id]]

\* a mutant: create_dataset without looking for the dataset first
create_dataset_always(dsets, dataset_id) ==
    IF dataset_id \in dsets
    THEN [ok |-> FALSE, error |-> "Conflict", datasets |-> dsets, created |-> FALSE]
    ELSE [ok |-> TRUE, error |-> None, datasets |-> dsets \cup {dataset_id}, created |-> TRUE]

\* try: client.get_dataset(id)  except NotFound: create_bq_module_dataset(...)
provision_dataset(dsets, dataset_id) ==
    IF dataset_id \in dsets
    THEN [ok |-> TRUE, error |-> None, datasets |-> dsets, created |-> FALSE]
    ELSE [ok |-> TRUE, error |-> None, datasets |-> dsets \cup {dataset_id}, created |-> TRUE]

\* a mutant: a deletion that is not confined to the table it is given
delete_every_table(tbls, table_id) == [id \in {} |-> tbls[table_id]]

\* client.delete_table(id, not_found_ok=True)
delete_table(tbls, table_id) == [id \in DOMAIN tbls \ {table_id} |-> tbls[id]]

add_rows(tbls, table_id, rows) ==
    [tbls EXCEPT ![table_id].rows = @ \cup rows]

-----------------------------------------------------------------------------
(* Type-Cast SQL Synthesizer: ingest.py insert_raw_into_final_bq *)

\* data_type_conversion_mapping, each template applied to a field name
data_type_conversion_mapping(field_name) ==
    ("STRING" :> <<field_name>>) @@
    ("DATETIME" :>
        <<"EXTRACT(DATETIME FROM TIMESTAMP_MILLIS(CAST(REGEXP_EXTRACT(", field_name,
          ", r\"/Date\\((-?\\d+)\\)\") AS INT64)))", " AS ", field_name>>) @@
    ("TIMESTAMP" :>
        <<"TIMESTAMP_MILLIS(CAST(REGEXP_EXTRACT(", field_name,
          ", r\"/Date\\(([-+]?\\d+)\\+0000\\)/\") AS INT64))", " AS ", field_name>>) @@
    ("FLOAT" :> <<"CAST(", field_name, " AS FLOAT64)", " AS ", field_name>>) @@
    ("BYTES" :>
        <<"SELECT CAST(cast(REGEXP_EXTRACT(", field_name,
          ", r\"[X|binary]'([A-Fa-f0-9][A-Fa-f0-9]*)'\") AS BYTES) AS STRING)">>)

\* 'CAST({field_name} AS {default_type}) AS {field_name}'
default_conversion_expr(field_name, default_type) ==
    <<"CAST(", field_name, " AS ", default_type, ")", " AS ", field_name>>

\* field_mapping.get(field.name)
field_mapping_get(formatted_schema, name) ==
    IF \E i \in DOMAIN formatted_schema : formatted_schema[i].name = name
    THEN formatted_schema[CHOOSE i \in DOMAIN formatted_schema :
            /\ formatted_schema[i].name = name
            /\ \A j \in (i + 1)..Len(formatted_schema) : formatted_schema[j].name # name
         ].field_type
    ELSE None

\* one iteration of "for field in raw_schema"
select_line(formatted_schema, field) ==
    LET type == field_mapping_get(formatted_schema, field.name)
        conv == data_type_conversion_mapping(field.name)
    IN  <<"\t">> \o (IF type \in DOMAIN conv THEN conv[type]
                     ELSE default_conversion_expr(field.name, type))

select_lines(formatted_schema, raw_schema) ==
    [i \in DOMAIN raw_schema |-> select_line(formatted_schema, raw_schema[i])]

\* base_query.format(...) of insert_raw_into_final_bq
final_insert_query(target_table, formatted_schema, source_table, raw_schema) ==
    <<"INSERT INTO ">> \o target_table \o <<"(\n">>
        \o Join(Singletons([i \in DOMAIN raw_schema |-> raw_schema[i].name]), <<",\n">>)
        \o <<"\n)\nSELECT\n">>
        \o Join(select_lines(formatted_schema, raw_schema), <<",\n">>)
        \o <<"\nFROM ">> \o source_table \o <<";">>

-----------------------------------------------------------------------------
(* Merge SQL Synthesizer: bigquery_sq_utils.py create_merge_query *)

column_names_of(fields) == [i \in DOMAIN fields |-> fields[i].name]

\* a mutant: the join condition over the first key only
merge_condition_first_key(keys) ==
    IF keys = <<>> THEN <<>> ELSE <<"source.", keys[1], "=", "target.", keys[1]>>

\* ' AND '.join([f'source.{key}=target.{key}' for key in keys])
merge_condition(keys) ==
    Join([i \in DOMAIN keys |-> <<"source.", keys[i], "=", "target.", keys[i]>>],
         <<" AND ">>)

\* a mutant: the assignments of the non-key columns only
merge_mapping_non_key(column_names, keys) ==
    LET NonKey(c) == c \notin Range(keys)
        cs == SelectSeqBy(column_names, NonKey)
    IN  Join([i \in DOMAIN cs |-> <<"target.", cs[i], "=", "source.", cs[i]>>], <<", ">>)

\* ', '.join([f'target.{column}=source.{column}' for column in column_names])
merge_mapping(column_names, keys) ==
    Join([i \in DOMAIN column_names |->
            <<"target.", column_names[i], "=", "source.", column_names[i]>>], <<", ">>)

\* sqlparse.format(..., reindent=True, keyword_case='upper'): keyword tokens
\* are put in upper case; line breaks and indentation are not tokens here
SqlKeywords == ("as" :> "AS") @@ ("and" :> "AND") @@ ("on" :> "ON") @@ ("set" :> "SET")

sqlparse_format(text) ==
    [i \in DOMAIN text |-> IF text[i] \in DOMAIN SqlKeywords THEN SqlKeywords[text[i]] ELSE text[i]]

create_merge_query(md, raw_table_id, rf_table_id) ==
    LET column_names == column_names_of(md.fields)
        columns == Join(Singletons(column_names), <<", ">>)
    IN  sqlparse_format(
            <<"MERGE INTO ">> \o rf_table_id \o <<" AS target USING( SELECT ">>
            \o columns \o <<" FROM ">> \o raw_table_id
            \o <<" WHERE TIMESTAMP_TRUNC(_PARTITIONTIME, DAY) = TIMESTAMP(FORMAT_DATE(\"%Y-%m-%d\",CURRENT_DATE())) ) AS source",
                 " ON ">>
            \o merge_condition(md.keys)
            \o <<" WHEN MATCHED THEN UPDATE SET ">>
            \o merge_mapping(column_names, md.keys)
            \o <<" WHEN NOT MATCHED BY TARGET THEN INSERT(">> \o columns
            \o <<") VALUES(">> \o columns \o <<");">>)

-----------------------------------------------------------------------------
(* The warehouse executing a CREATE TABLE IF NOT EXISTS statement *)

IndexOf(s, tok) == find(s, tok) + 1

\* the text between the first token open and the next token close after it
Between(s, open, closes) ==
    LET a == IndexOf(s, open)
        rest == SubSeq(s, a + 1, Len(s))
        b == CHOOSE j \in DOMAIN rest :
                rest[j] \in closes /\ \A k \in 1..(j - 1) : rest[k] \notin closes
    IN  SubSeq(rest, 1, b - 1)

ddl_table_id(ddl) == Between(ddl, "CREATE TABLE IF NOT EXISTS ", {"("})

ddl_column_texts(ddl) ==
    LET body == Between(ddl, "(", {")", ");"})
    IN  IF body = <<>> THEN <<>> ELSE SplitBy(body, ",")

ddl_columns(ddl) ==
    LET cols == ddl_column_texts(ddl)
    IN  [i \in DOMAIN cols |-> [name |-> cols[i][1], type |-> cols[i][3]]]

ddl_partitioned(ddl) == PartitionClause \in Range(ddl)

ddl_clustering(ddl) ==
    IF "CLUSTER BY " \in Range(ddl)
    THEN LET NotComma(t) == t # ","
         IN  SelectSeqBy(Between(ddl, "CLUSTER BY ", {"OPTIONS (", ");"}), NotComma)
    ELSE <<>>

\* client.query_and_wait(ddl), when the warehouse accepts the statement
execute_ddl(tbls, ddl) ==
    create_table_if_not_exists(tbls, ddl_table_id(ddl),
        NewTable(ddl_columns(ddl), ddl_partitioned(ddl), ddl_clustering(ddl)))

-----------------------------------------------------------------------------
(* The paginated data endpoint and get_entity_data *)

Url(entity, select, token) == [entity |-> entity, select |-> select, token |-> token]
NoneUrl == Url(None, <<>>, -1)          \* Python None
NullUrl == Url("null", <<>>, -1)        \* the string 'null'

NoResponse == [k \in {} |-> 0]

\* the servers of the model: token t links to a later token, or to nothing
Servers ==
    {f \in [0..MaxToken -> -1..MaxToken] : \A t \in 0..MaxToken : f[t] = -1 \/ f[t] > t}

DefaultServer == [t \in 0..MaxToken |-> IF t = 0 THEN 1 ELSE -1]

\* the 'd' envelope for a URL: {results: [...], __next?: <url>}
page_of(srv, url) ==
    IF srv[url.token] = -1 THEN ("results" :> url.token)
    ELSE ("results" :> url.token) @@ ("__next" :> Url(url.entity, url.select, srv[url.token]))

get_next_page_url(page) ==
    IF "__next" \notin DOMAIN page THEN NoneUrl ELSE page["__next"]

\* f"https://.../odata/v2/{entity}?$select={','.join(metadata_fields)}&paging=snapshot&$format=json"
first_page_url(md) == Url(md.name, column_names_of(md.fields), 0)

\* a mutant: the page counter is not advanced
same_page_number(n) == n

\* page_number += 1
next_page_number(n) == n + 1

-----------------------------------------------------------------------------
(* Pipeline description: ssff_utils.py *)

ssff_data_type_mapping ==
    ("Edm.SByte" :> "int") @@ ("Edm.Byte" :> "bytes") @@ ("Edm.Int16" :> "int") @@
    ("Edm.Int32" :> "int") @@ ("Edm.Int64" :> "long") @@ ("Edm.Double" :> "double") @@
    ("Edm.Float" :> "float") @@ ("Edm.Decimal" :> "bytes:decimal(15,2)") @@
    ("Edm.String" :> "string") @@ ("Edm.Binary" :> "bytes") @@
    ("Edm.Boolean" :> "boolean") @@ ("Edm.DateTime" :> "string:datetime") @@
    ("Edm.Time" :> "long:time-micros") @@ ("Edm.DateTimeOffset" :> "long:timestamp-micros")

ssff_data_type_mapping_get(source_type) ==
    IF source_type \in DOMAIN ssff_data_type_mapping
    THEN ssff_data_type_mapping[source_type] ELSE None

format_metadata(doc) ==
    LET visible == SelectSeqBy(doc.Property, IsVisible)
    IN  [name |-> doc.Name,
         keys |-> doc.PropertyRef.names,
         fields |-> [i \in DOMAIN visible |->
                        [name |-> visible[i].Name, type |-> visible[i].Type,
                         nullable |-> (visible[i].Nullable = "true")]]]

get_filter(fields) ==
    IF "lastModifiedDateTime" \in {fields[i].name : i \in DOMAIN fields}
    THEN "lastModifiedDateTime" ELSE "lastModifiedOn"

get_upsert_keys(keys) ==
    Append(keys, IF "lastModifiedDateTime" \in Range(keys)
                 THEN "lastModifiedDateTime" ELSE "lastModifiedOn")

NoPipeline ==
    [name |-> None, fields |-> <<>>, filterOption |-> None, selectOption |-> <<>>,
     relationTableKey |-> <<>>, dataset |-> <<>>]

build_ssff_json_pipeline(doc, dataset) ==
    LET fm == format_metadata(doc)
    IN  [name |-> fm.name,
         fields |-> [i \in DOMAIN fm.fields |->
                        [name |-> fm.fields[i].name,
                         type |-> IF fm.fields[i].nullable
                                  THEN <<ssff_data_type_mapping_get(fm.fields[i].type), "null">>
                                  ELSE <<ssff_data_type_mapping_get(fm.fields[i].type)>>]],
         filterOption |-> get_filter(fm.fields),
         selectOption |-> column_names_of(fm.fields),
         relationTableKey |-> get_upsert_keys(fm.keys),
         dataset |-> dataset]

-----------------------------------------------------------------------------
(* __main__ of ingest.py, one action per call *)

NoQueries == [final |-> <<>>, refined |-> <<>>, raw |-> <<>>, insert |-> <<>>, merge |-> <<>>]

\* an operation issued against the warehouse or the buckets, and how it ended
Op(name, ok) == [op |-> name, ok |-> ok]

DefaultDocument == Document(DefaultProps, DefaultKey, DefaultTags, "list")

remote == <<metadata, server>>
paging == <<sf_odata_url, next_page, page_number, response, requests, stores>>
storage == <<data_files, gcs, metadata_file, pipeline>>
warehouse == <<datasets, tables, scheduled>>

Init ==
    /\ metadata \in Documents
    /\ server \in Servers
    /\ metadata = DefaultDocument \/ server = DefaultServer
    /\ pc = "get_entity_metadata"
    /\ run = 1
    /\ parsed_metadata = NoDescriptor
    /\ datasets = {}
    /\ tables = NoTables
    /\ queries = NoQueries
    /\ load_schema = <<>>
    /\ sf_odata_url = NoneUrl
    /\ next_page = NoneUrl
    /\ page_number = 0
    /\ response = NoResponse
    /\ requests = <<>>
    /\ stores = <<>>
    /\ data_files = NoResponse
    /\ gcs = {}
    /\ metadata_file = NoDescriptor
    /\ pipeline = NoPipeline
    /\ scheduled = <<>>
    /\ log = <<>>
    /\ error = None

Goto(label) == pc' = label /\ error' = error
Fail(exc) == pc' = "failed" /\ error' = exc

\* metadata = get_entity_metadata(entity=entity)
get_entity_metadata ==
    /\ pc = "get_entity_metadata"
    /\ \/ Goto("process_metadata")
       \/ Fail("UnboundLocalError")
    /\ UNCHANGED <<remote, run, parsed_metadata, warehouse, queries, load_schema,
                   paging, storage, log>>

\* parsed_metadata = process_metadata(metadata=metadata)
main_process_metadata ==
    /\ pc = "process_metadata"
    /\ LET r == process_metadata(metadata)
       IN  IF r.ok
           THEN parsed_metadata' = r.value /\ Goto("store_metadata")
           ELSE parsed_metadata' = parsed_metadata /\ Fail(r.error)
    /\ UNCHANGED <<remote, run, warehouse, queries, load_schema, paging, storage, log>>

\* store_metadata(entity=entity, metadata=parsed_metadata)
store_metadata ==
    /\ pc = "store_metadata"
    /\ metadata_file' = parsed_metadata
    /\ Goto("create_bq_final_table")
    /\ UNCHANGED <<remote, run, parsed_metadata, warehouse, queries, load_schema,
                   paging, data_files, gcs, pipeline, log>>

\* the part final and refined table creation share: dataset, DDL, query_and_wait
CreateTypedTable(project, ddl, which, label, next) ==
    LET md == parsed_metadata
        prov == provision_dataset(datasets, dataset_id_of(project, md.module))
        made == IF prov.created \/ ~prov.ok THEN <<Op("create_dataset", prov.ok)>> ELSE <<>>
    IN  /\ datasets' = prov.datasets
        /\ IF ~prov.ok
           THEN /\ Fail(prov.error)
                /\ log' = log \o made
                /\ UNCHANGED <<tables, queries>>
           ELSE IF HasNoneType(md.fields)
           THEN \* str + None while the f-string is built
                /\ Fail("TypeError")
                /\ log' = log \o made
                /\ UNCHANGED <<tables, queries>>
           ELSE /\ queries' = [queries EXCEPT ![which] = ddl]
                /\ \E ok \in BOOLEAN :
                    LET accepted == ok /\ ddl_column_texts(ddl) # <<>>
                    IN  /\ log' = log \o made \o <<Op(label, accepted)>>
                        /\ IF accepted
                           THEN tables' = execute_ddl(tables, ddl) /\ Goto(next)
                           ELSE tables' = tables /\ Fail("QueryError")

\* final_table_id = create_bq_final_table(metadata=parsed_metadata)
create_bq_final_table ==
    /\ pc = "create_bq_final_table"
    /\ CreateTypedTable(PROJECT_ID,
            final_table_ddl(final_table_id_of(parsed_metadata), parsed_metadata),
            "final", "ddl_final", "create_bq_refined_table")
    /\ UNCHANGED <<remote, run, parsed_metadata, scheduled, load_schema, paging, storage>>

\* rf_table_id = bq_utils.create_bq_refined_table(metadata=parsed_metadata)
create_bq_refined_table ==
    /\ pc = "create_bq_refined_table"
    /\ CreateTypedTable(RF_PROJECT_ID,
            refined_table_ddl(refined_table_id_of(parsed_metadata), parsed_metadata),
            "refined", "ddl_refined", "create_bq_raw_table")
    /\ UNCHANGED <<remote, run, parsed_metadata, scheduled, load_schema, paging, storage>>

\* temp_table_id = create_bq_raw_table(metadata=parsed_metadata)
create_bq_raw_table ==
    /\ pc = "create_bq_raw_table"
    /\ LET fields == widen(parsed_metadata.fields)
           ddl == raw_table_ddl(raw_table_id_of(parsed_metadata), fields)
       IN  /\ parsed_metadata' = [parsed_metadata EXCEPT !.fields = fields]
           /\ queries' = [queries EXCEPT !.raw = ddl]
           /\ \E ok \in BOOLEAN :
                LET accepted == ok /\ ddl_column_texts(ddl) # <<>>
                IN  /\ log' = Append(log, Op("ddl_raw", accepted))
                    /\ IF accepted
                       THEN tables' = execute_ddl(tables, ddl) /\ Goto("get_entity_data")
                       ELSE tables' = tables /\ Fail("QueryError")
    /\ UNCHANGED <<remote, run, datasets, scheduled, load_schema, paging, storage>>


\* get_entity_data, up to the while loop: the row count and the first URL
get_entity_data ==
    /\ pc = "get_entity_data"
    /\ \/ /\ page_number' = 0
          /\ sf_odata_url' = first_page_url(parsed_metadata)
          /\ next_page' = NullUrl
          /\ Goto("make_odata_request")
       \/ /\ Fail("UnboundLocalError")
          /\ UNCHANGED <<page_number, sf_odata_url, next_page>>
    /\ UNCHANGED <<remote, run, parsed_metadata, warehouse, queries, load_schema,
                   response, requests, stores, storage, log>>

\* while next_page is not None: response = make_odata_request(url=sf_odata_url)
make_odata_request ==
    /\ pc = "make_odata_request"
    /\ next_page # NoneUrl
    /\ requests' = Append(requests, sf_odata_url)
    /\ \/ response' = page_of(server, sf_odata_url) /\ Goto("store_data")
       \/ response' = response /\ Fail("RequestError")
    /\ UNCHANGED <<remote, run, parsed_metadata, warehouse, queries, load_schema,
                   sf_odata_url, next_page, page_number, stores, storage, log>>

\* the rest of the loop body: store_data, get_next_page_url, page_number += 1
store_data ==
    /\ pc = "store_data"
    /\ stores' = Append(stores, [page |-> page_number, data |-> response["results"]])
    /\ data_files' = [p \in DOMAIN data_files \cup {page_number} |->
                        IF p = page_number THEN response["results"] ELSE data_files[p]]
    /\ next_page' = get_next_page_url(response)
    /\ sf_odata_url' = next_page'
    /\ page_number' = next_page_number(page_number)
    /\ response' = NoResponse
    /\ IF next_page' # NoneUrl
       THEN Goto("make_odata_request")
       ELSE Goto("move_data_local_to_gcs")
    /\ UNCHANGED <<remote, run, parsed_metadata, warehouse, queries, load_schema,
                   requests, gcs, metadata_file, pipeline, log>>

\* the per-run prefix: entity.lower() + '_' + timestamp, one timestamp per run
prefix == run

\* move_data_local_to_gcs(prefix=prefix): every .json file of ./data, or, when
\* the uploads fail (which is printed, not raised), none
move_data_local_to_gcs ==
    /\ pc = "move_data_local_to_gcs"
    /\ \E ok \in BOOLEAN :
        /\ gcs' = IF ok
                  THEN gcs \cup {[prefix |-> prefix, page |-> p, data |-> data_files[p]] :
                                    p \in DOMAIN data_files}
                  ELSE gcs
        /\ log' = Append(log, Op("upload", ok))
    /\ Goto("insert_data_into_bq")
    /\ UNCHANGED <<remote, run, parsed_metadata, warehouse, queries, load_schema,
                   paging, data_files, metadata_file, pipeline>>

\* insert_data_into_bq(metadata=parsed_metadata, prefix=prefix, table_id=temp_table_id)
insert_data_into_bq ==
    /\ pc = "insert_data_into_bq"
    /\ load_schema' = load_job_schema(parsed_metadata.fields)
    /\ \E ok \in BOOLEAN :
        /\ log' = Append(log, Op("load_job", ok))
        /\ IF ok
           THEN /\ tables' = add_rows(tables, raw_table_id_of(parsed_metadata),
                                {o.data : o \in {x \in gcs : x.prefix = prefix}})
                /\ Goto("insert_raw_into_final_bq")
           ELSE tables' = tables /\ Fail("LoadError")
    /\ UNCHANGED <<remote, run, parsed_metadata, datasets, scheduled, queries,
                   paging, storage>>

\* insert_raw_into_final_bq(formatted_table=final_table_id, raw_table=temp_table_id)
insert_raw_into_final_bq ==
    /\ pc = "insert_raw_into_final_bq"
    /\ LET formatted_table == final_table_id_of(parsed_metadata)
           raw_table == raw_table_id_of(parsed_metadata)
       IN  /\ queries' = [queries EXCEPT !.insert =
                            final_insert_query(formatted_table, tables[formatted_table].schema,
                                               raw_table, tables[raw_table].schema)]
           /\ \E ok \in BOOLEAN :
                /\ log' = Append(log, Op("insert_job", ok))
                /\ IF ok
                   THEN /\ tables' = add_rows(tables, formatted_table, tables[raw_table].rows)
                        /\ Goto("gcp_clean_up")
                   ELSE tables' = tables /\ Fail("QueryError")
    /\ UNCHANGED <<remote, run, parsed_metadata, datasets, scheduled, load_schema,
                   paging, storage>>

\* bucket.list_blobs(prefix=prefix): the objects whose name starts with the
\* prefix.  Names are <prefix>/<file>, and the prefixes of two runs are the same
\* entity with two timestamps of one width, so neither starts with the other
list_blobs(bucket, blob_prefix) == {o \in bucket : o.prefix = blob_prefix}

\* gcp_clean_up(temp_table_id=temp_table_id, prefix=prefix)
gcp_clean_up ==
    /\ pc = "gcp_clean_up"
    /\ \/ /\ tables' = delete_table(tables, raw_table_id_of(parsed_metadata))
          /\ \E deleted \in {{o \in list_blobs(gcs, prefix) : o.page < k} :
                                    k \in 0..Cardinality(list_blobs(gcs, prefix))} :
                \* delete_blobs deletes in listing order and stops at the first
                \* blob it fails on; NotFound and the exceptions that carry a
                \* message are printed, not raised
                /\ gcs' = gcs \ deleted
                /\ log' = log \o <<Op("delete_table", TRUE),
                                   Op("delete_blobs", deleted = list_blobs(gcs, prefix))>>
          /\ \/ Goto("build_ssff_json_pipeline")
             \* print(str(e.message)) on an exception without a message
             \/ Fail("AttributeError")
       \/ /\ Fail("DeleteError")
          /\ log' = Append(log, Op("delete_table", FALSE))
          /\ UNCHANGED <<tables, gcs>>
    /\ UNCHANGED <<remote, run, parsed_metadata, datasets, scheduled, queries,
                   load_schema, paging, data_files, metadata_file, pipeline>>

\* dataset_id = final_table_id.split('.')[1]
\* build_ssff_json_pipeline(metadata=metadata, dataset=dataset_id)
main_build_ssff_json_pipeline ==
    /\ pc = "build_ssff_json_pipeline"
    /\ \/ /\ pipeline' = build_ssff_json_pipeline(metadata,
                            SplitBy(final_table_id_of(parsed_metadata), ".")[2])
          /\ Goto("create_merge_query")
       \/ /\ pipeline' = pipeline
          /\ Fail("UploadError")
    /\ UNCHANGED <<remote, run, parsed_metadata, warehouse, queries, load_schema,
                   paging, data_files, gcs, metadata_file, log>>

\* merge_query = bq_utils.create_merge_query(...)
main_create_merge_query ==
    /\ pc = "create_merge_query"
    /\ queries' = [queries EXCEPT !.merge =
                        create_merge_query(parsed_metadata,
                                           final_table_id_of(parsed_metadata),
                                           refined_table_id_of(parsed_metadata))]
    /\ Goto("run_merge_query_once")
    /\ UNCHANGED <<remote, run, parsed_metadata, warehouse, load_schema, paging,
                   storage, log>>

\* a mutant: a one-off MERGE whose failure is printed and not raised
run_merge_query_once_unchecked ==
    /\ pc = "run_merge_query_once"
    /\ \E ok \in BOOLEAN :
        /\ log' = Append(log, Op("merge_job", ok))
        /\ tables' = IF ok
                     THEN add_rows(tables, refined_table_id_of(parsed_metadata),
                                   tables[final_table_id_of(parsed_metadata)].rows)
                     ELSE tables
        /\ Goto("create_scheduled_query")
    /\ UNCHANGED <<remote, run, parsed_metadata, datasets, scheduled, queries,
                   load_schema, paging, storage>>

\* bq_utils.run_merge_query_once(query=merge_query)
run_merge_query_once ==
    /\ pc = "run_merge_query_once"
    /\ \E ok \in BOOLEAN :
        /\ log' = Append(log, Op("merge_job", ok))
        /\ IF ok
           THEN /\ tables' = add_rows(tables, refined_table_id_of(parsed_metadata),
                                tables[final_table_id_of(parsed_metadata)].rows)
                /\ Goto("create_scheduled_query")
           ELSE tables' = tables /\ Fail("QueryError")
    /\ UNCHANGED <<remote, run, parsed_metadata, datasets, scheduled, queries,
                   load_schema, paging, storage>>

\* bq_utils.create_scheduled_query(query=merge_query, entity=entity)
create_scheduled_query ==
    /\ pc = "create_scheduled_query"
    /\ \E ok \in BOOLEAN :
        /\ log' = Append(log, Op("scheduled_query", ok))
        /\ IF ok
           THEN /\ scheduled' = Append(scheduled,
                                [display_name |-> <<metadata.Name, "_consulta_programada">>,
                                 query |-> queries.merge, schedule |-> "every day 14:30"])
                /\ Goto("done")
           ELSE scheduled' = scheduled /\ Fail("TransferError")
    /\ UNCHANGED <<remote, run, parsed_metadata, datasets, tables, queries,
                   load_schema, paging, storage>>

\* the process is started again, against the same warehouse and directories
start_next_run ==
    /\ pc \in {"done", "failed"}
    /\ run < MaxRuns
    /\ run' = run + 1
    /\ pc' = "get_entity_metadata"
    /\ error' = None
    /\ parsed_metadata' = NoDescriptor
    /\ queries' = NoQueries
    /\ load_schema' = <<>>
    /\ sf_odata_url' = NoneUrl
    /\ next_page' = NoneUrl
    /\ page_number' = 0
    /\ response' = NoResponse
    /\ requests' = <<>>
    /\ stores' = <<>>
    /\ log' = <<>>
    /\ UNCHANGED <<remote, warehouse, storage>>

Next ==
    \/ get_entity_metadata
    \/ main_process_metadata
    \/ store_metadata
    \/ create_bq_final_table
    \/ create_bq_refined_table
    \/ create_bq_raw_table
    \/ get_entity_data
    \/ make_odata_request
    \/ store_data
    \/ move_data_local_to_gcs
    \/ insert_data_into_bq
    \/ insert_raw_into_final_bq
    \/ gcp_clean_up
    \/ main_build_ssff_json_pipeline
    \/ main_create_merge_query
    \/ run_merge_query_once
    \/ create_scheduled_query
    \/ start_next_run

Spec == Init /\ [][Next]_vars

-----------------------------------------------------------------------------
(* Properties *)

VisibleProperties == SelectSeqBy(metadata.Property, IsVisible)

UnmappedVisibleType ==
    \E i \in DOMAIN metadata.Property :
        /\ IsVisible(metadata.Property[i])
        /\ metadata.Property[i].Type \notin DOMAIN data_type_mapping

Parsed == parsed_metadata # NoDescriptor

FieldNames == {parsed_metadata.fields[i].name : i \in DOMAIN parsed_metadata.fields}

\* C1: a visible property whose source type the mapping table does not know
\* makes process_metadata fail, and no descriptor has a field of type None.
C1_StrictTypeMapping ==
    /\ Parsed => \A i \in DOMAIN parsed_metadata.fields : parsed_metadata.fields[i].type # None
    /\ (UnmappedVisibleType /\ pc \notin {"get_entity_metadata", "process_metadata"})
            => (pc = "failed" /\ ~Parsed)

UpstreamShapeError ==
    \/ metadata.tags.kind \notin {"str", "list"}
    \/ metadata.PropertyShape # "list"
    \/ UnmappedVisibleType

\* C2: in a run whose metadata has an upstream-shape error, no dataset
\* creation, table DDL, load, INSERT or MERGE job and no scheduled-query
\* registration is ever issued.
C2_HaltBeforeMutation ==
    UpstreamShapeError => (log = <<>> /\ pc # "done")

\* C3: every descriptor process_metadata returns has a non-empty key list
\* whose names are all names of fields of the descriptor.
C3_KeysSubsetOfFields ==
    Parsed => (parsed_metadata.keys # <<>> /\ Range(parsed_metadata.keys) \subseteq FieldNames)

InsertTargetColumns ==
    LET NotSep(t) == t # ",\n"
    IN  SelectSeqBy(Between(queries.insert, "(\n", {"\n)\nSELECT\n"}), NotSep)

InsertSelectExpressions ==
    LET text == Between(queries.insert, "\n)\nSELECT\n", {"\nFROM "})
    IN  IF text = <<>> THEN <<>> ELSE SplitBy(text, ",\n")

\* the name a SELECT expression gives its column: the bare column, or the
\* name after a trailing AS; None when the expression has neither
AliasOf(line) ==
    LET e == Tail(line)
    IN  IF Len(e) = 1 THEN e[1]
        ELSE IF Len(e) >= 2 /\ e[Len(e) - 1] = " AS " THEN e[Len(e)]
        ELSE None

FinalSchema == tables[final_table_id_of(parsed_metadata)].schema

\* C4: the INSERT ... SELECT has one SELECT expression per column of the final
\* schema, in the order of the target column list, each the bare column or
\* aliased to the column's own name, whatever the column's type.
C4_InsertSelectAliased ==
    queries.insert # <<>> =>
        /\ Len(InsertSelectExpressions) = Len(FinalSchema)
        /\ Len(InsertTargetColumns) = Len(FinalSchema)
        /\ \A i \in DOMAIN FinalSchema :
            /\ InsertTargetColumns[i] = FinalSchema[i].name
            /\ Head(InsertSelectExpressions[i]) = "\t"
            /\ AliasOf(InsertSelectExpressions[i]) = FinalSchema[i].name

MergeOn == Between(queries.merge, " ON ", {" WHEN MATCHED THEN UPDATE SET "})
MergeSet ==
    Between(queries.merge, " WHEN MATCHED THEN UPDATE SET ",
            {" WHEN NOT MATCHED BY TARGET THEN INSERT("})
MergeInsert ==
    Between(queries.merge, " WHEN NOT MATCHED BY TARGET THEN INSERT(", {") VALUES("})
MergeValues == Between(queries.merge, ") VALUES(", {");"})

\* text is item(1) sep item(2) sep ... item(n), every item of `width` tokens
IsJoined(text, n, width, sep, Item(_)) ==
    /\ Len(text) = (IF n = 0 THEN 0 ELSE n * (width + 1) - 1)
    /\ \A i \in 1..n :
        /\ SubSeq(text, (i - 1) * (width + 1) + 1, (i - 1) * (width + 1) + width) = Item(i)
        /\ i < n => text[i * (width + 1)] = sep

DeclaredColumns == column_names_of(parsed_metadata.fields)

\* C5: for a non-empty key list k1..kn the ON condition of the MERGE is
\* source.k1=target.k1 AND ... AND source.kn=target.kn, over every key in
\* declared order and nothing else, and the not-matched branch inserts every
\* declared column, its VALUES list being the same columns in the same order.
C5_MergeKeysAndInsert ==
    (queries.merge # <<>> /\ parsed_metadata.keys # <<>>) =>
        LET keys == parsed_metadata.keys
            KeyEq(i) == <<"source.", keys[i], "=", "target.", keys[i]>>
            Column(i) == <<DeclaredColumns[i]>>
        IN  /\ IsJoined(MergeOn, Len(keys), 5, " AND ", KeyEq)
            /\ IsJoined(MergeInsert, Len(DeclaredColumns), 1, ", ", Column)
            /\ MergeValues = MergeInsert

C5_Witness ==
    /\ queries.merge # <<>>
    /\ Len(parsed_metadata.keys) = 2
    /\ Len(DeclaredColumns) = 2

\* C6 as claimed: the SET list of WHEN MATCHED assigns exactly the declared
\* columns that are not key fields.
C6_SetNonKeyColumns ==
    queries.merge # <<>> =>
        LET NonKey(c) == c \notin Range(parsed_metadata.keys)
            cs == SelectSeqBy(DeclaredColumns, NonKey)
            Assign(i) == <<"target.", cs[i], "=", "source.", cs[i]>>
        IN  IsJoined(MergeSet, Len(cs), 5, ", ", Assign)

\* C6 as amended: the SET list of WHEN MATCHED assigns target.c=source.c for
\* every declared column c, key fields included, in declared order.
C6_SetAllColumns ==
    queries.merge # <<>> =>
        LET Assign(i) == <<"target.", DeclaredColumns[i], "=", "source.", DeclaredColumns[i]>>
        IN  IsJoined(MergeSet, Len(DeclaredColumns), 5, ", ", Assign)

C6_Witness ==
    /\ queries.merge # <<>>
    /\ Len(DeclaredColumns) = 2
    /\ \E i \in DOMAIN DeclaredColumns : DeclaredColumns[i] \in Range(parsed_metadata.keys)
    /\ \E i \in DOMAIN DeclaredColumns : DeclaredColumns[i] \notin Range(parsed_metadata.keys)

ClusterColumns(ddl) ==
    LET NotComma(t) == t # ","
    IN  SelectSeqBy(Between(ddl, "CLUSTER BY ", {"OPTIONS (", ");"}), NotComma)

\* C7: the final table's DDL has the day-truncated ingestion-time PARTITION BY
\* clause and a CLUSTER BY clause listing the keys in declared order; the
\* refined table's DDL has that CLUSTER BY clause and no PARTITION BY; the
\* staging table's DDL has neither.
C7_DDLClauses ==
    /\ queries.final # <<>> =>
        /\ Len(SelectSeq(queries.final, LAMBDA t : t = PartitionClause)) = 1
        /\ Len(SelectSeq(queries.final, LAMBDA t : t = "CLUSTER BY ")) = 1
        /\ IndexOf(queries.final, PartitionClause) < IndexOf(queries.final, "CLUSTER BY ")
        /\ ClusterColumns(queries.final) = parsed_metadata.keys
    /\ queries.refined # <<>> =>
        /\ PartitionClause \notin Range(queries.refined)
        /\ Len(SelectSeq(queries.refined, LAMBDA t : t = "CLUSTER BY ")) = 1
        /\ ClusterColumns(queries.refined) = parsed_metadata.keys
    /\ queries.raw # <<>> =>
        /\ PartitionClause \notin Range(queries.raw)
        /\ "CLUSTER BY " \notin Range(queries.raw)

C7_Witness ==
    /\ queries.final # <<>> /\ queries.refined # <<>> /\ queries.raw # <<>>
    /\ Len(parsed_metadata.keys) = 2

\* one column per visible property, BOOL where the mapping resolves the
\* property's type to BOOL and STRING otherwise
StagingShape ==
    [i \in DOMAIN VisibleProperties |->
        [name |-> VisibleProperties[i].Name,
         type |-> IF data_type_mapping_get(VisibleProperties[i].Type) = "BOOL"
                  THEN "BOOL" ELSE "STRING"]]

\* C8: the staging table's DDL and the load job's schema declare one column
\* per field, in field order, BOOL when the field's resolved type is BOOL and
\* STRING otherwise, and the two schemas are the same.
C8_StagingShape ==
    /\ queries.raw # <<>> => ddl_columns(queries.raw) = StagingShape
    /\ load_schema # <<>> =>
        /\ Len(load_schema) = Len(StagingShape)
        /\ \A i \in DOMAIN load_schema :
            /\ load_schema[i].name = StagingShape[i].name
            /\ load_schema[i].field_type = StagingShape[i].type
            /\ load_schema[i].name = ddl_columns(queries.raw)[i].name
            /\ load_schema[i].field_type = ddl_columns(queries.raw)[i].type

C8_Witness ==
    /\ load_schema # <<>>
    /\ \E i \in DOMAIN load_schema : load_schema[i].field_type = "BOOL"
    /\ \E i \in DOMAIN VisibleProperties : VisibleProperties[i].Type = "Edm.DateTime"


\* the pages of the chain that starts at the first URL
RECURSIVE ChainLength(_, _)
ChainLength(srv, token) ==
    IF srv[token] = -1 THEN 1 ELSE 1 + ChainLength(srv, srv[token])

AfterPagination ==
    pc \in {"move_data_local_to_gcs", "insert_data_into_bq", "insert_raw_into_final_bq",
            "gcp_clean_up", "build_ssff_json_pipeline", "create_merge_query",
            "run_merge_query_once", "create_scheduled_query", "done"}

PageAt(i) == page_of(server, requests[i])

\* C9: pages are fetched one at a time; every fetched page is stored once,
\* under the page numbers 0, 1, 2, ..., before the next request; every
\* request after the first goes to the __next of the page just stored; and
\* the loop ends exactly when a page without __next has been stored, after
\* as many requests and stores as the chain has pages.
C9_Pagination ==
    LET n == Len(requests)
        m == Len(stores)
    IN  /\ m <= n /\ n <= m + 1
        /\ n = m + 1 => pc \in {"store_data", "failed"}
        /\ pc = "store_data" => (n = m + 1 /\ response = PageAt(n))
        /\ page_number = m
        /\ \A i \in 1..m : stores[i].page = i - 1 /\ stores[i].data = PageAt(i)["results"]
        /\ n >= 1 => requests[1] = first_page_url(parsed_metadata)
        /\ \A i \in 1..(n - 1) :
            "__next" \in DOMAIN PageAt(i) /\ requests[i + 1] = PageAt(i)["__next"]
        /\ (pc = "make_odata_request" /\ n >= 1) =>
            ("__next" \in DOMAIN PageAt(n) /\ sf_odata_url = PageAt(n)["__next"])
        /\ AfterPagination =>
            /\ n = m /\ n >= 1
            /\ "__next" \notin DOMAIN PageAt(n)
            /\ n = ChainLength(server, 0)

C9_Witness ==
    /\ pc = "move_data_local_to_gcs"
    /\ Len(stores) = 3
    /\ stores[3].page = 2

\* the dataset and the tables a run provisions
RunDatasets(md) == {dataset_id_of(PROJECT_ID, md.module), dataset_id_of(RF_PROJECT_ID, md.module)}
RunTables(md) == {final_table_id_of(md), refined_table_id_of(md), raw_table_id_of(md)}

ProvisionedBy(step, md) ==
    CASE step = "create_bq_final_table" ->
            [dataset |-> {dataset_id_of(PROJECT_ID, md.module)}, table |-> final_table_id_of(md)]
      [] step = "create_bq_refined_table" ->
            [dataset |-> {dataset_id_of(RF_PROJECT_ID, md.module)}, table |-> refined_table_id_of(md)]
      [] OTHER -> [dataset |-> {}, table |-> raw_table_id_of(md)]

IdempotentProvisioning ==
    pc \in {"create_bq_final_table", "create_bq_refined_table", "create_bq_raw_table"} =>
        LET target == ProvisionedBy(pc, parsed_metadata)
        IN  /\ target.dataset \subseteq datasets =>
                (datasets' = datasets /\ error' \notin {"Conflict", "AlreadyExists"})
            /\ target.table \in DOMAIN tables => tables' = tables
            /\ datasets \subseteq datasets'
            /\ \A id \in DOMAIN tables : id \in DOMAIN tables' /\ tables'[id] = tables[id]

\* C10: a provisioning step that finds its dataset does not create it and
\* does not fail on it, and one that finds its table leaves every table, its
\* columns included, as it was; no step removes a dataset or another table.
C10_DDLIdempotent == [][IdempotentProvisioning]_vars

C10_Witness ==
    /\ run = 2
    /\ pc = "get_entity_data"
    /\ log = <<Op("ddl_final", TRUE), Op("ddl_refined", TRUE), Op("ddl_raw", TRUE)>>
    /\ tables[final_table_id_of(parsed_metadata)].rows # {}
    /\ tables[raw_table_id_of(parsed_metadata)].rows # {}


-----------------------------------------------------------------------------
(* Cleanup scope *)

\* a staging table id: <project>.<dataset>.temp_<entity>
IsStaging(table_id) == Len(table_id) > 1 /\ table_id[Len(table_id) - 1] = "temp_"

InsertCompleted == \E i \in DOMAIN log : log[i] = Op("insert_job", TRUE)

CleanupScope ==
    /\ \A id \in DOMAIN tables :
            id \notin DOMAIN tables' =>
                /\ pc = "gcp_clean_up"
                /\ IsStaging(id)
                /\ id = raw_table_id_of(parsed_metadata)
                /\ InsertCompleted
    /\ \A o \in gcs \ gcs' : pc = "gcp_clean_up" /\ o.prefix = prefix
    /\ pc = "gcp_clean_up" =>
            /\ \A id \in DOMAIN tables' : id \in DOMAIN tables /\ tables'[id] = tables[id]
            /\ gcs' \subseteq gcs
            /\ UNCHANGED <<datasets, scheduled, data_files, metadata_file, pipeline>>

\* C11: a table is deleted only by gcp_clean_up, only the staging (temp_)
\* table of the run and only after the INSERT from staging into the final
\* table has completed, so a final or refined table, once created, stays; an
\* object leaves the bucket only in gcp_clean_up and only from under the
\* prefix of the run; gcp_clean_up changes nothing else.
C11_CleanupScope == [][CleanupScope]_vars

C11_Witness ==
    /\ run = 2
    /\ pc = "build_ssff_json_pipeline"
    /\ log[Len(log)] = Op("delete_blobs", TRUE)
    /\ raw_table_id_of(parsed_metadata) \notin DOMAIN tables
    /\ tables[final_table_id_of(parsed_metadata)].rows # {}
    /\ refined_table_id_of(parsed_metadata) \in DOMAIN tables
    /\ \E o \in gcs : o.prefix = 1
    /\ list_blobs(gcs, prefix) = {}


-----------------------------------------------------------------------------
(* Step ordering of a run *)

JobOrder == <<"load_job", "insert_job", "merge_job", "scheduled_query">>
DDLOrder == <<"ddl_final", "ddl_refined", "ddl_raw">>

IsJob(entry) == entry.op \in Range(JobOrder)
IsDDL(entry) == entry.op \in Range(DDLOrder)

\* the jobs and the table DDLs this run has issued so far, in the order issued
Jobs == SelectSeq(log, IsJob)
DDLs == SelectSeq(log, IsDDL)

FetchStarted == requests # <<>> \/ pc \in {"make_odata_request", "store_data"}

\* C12: the jobs a run has issued are an initial part of load, INSERT, MERGE,
\* scheduled-query registration, each at most once, and every one but the last
\* issued has succeeded; so the registration is issued only after the load,
\* the INSERT and the one-off MERGE of the same run succeeded, and a query is
\* registered only by a registration that succeeded.  The table DDLs are
\* issued at most once each, final, refined, staging, and all three have
\* succeeded when the first data page is requested.
C12_StepOrdering ==
    /\ Len(Jobs) <= Len(JobOrder)
    /\ \A i \in DOMAIN Jobs :
            /\ Jobs[i].op = JobOrder[i]
            /\ i < Len(Jobs) => Jobs[i].ok
    /\ (\E i \in DOMAIN log : log[i].op = "scheduled_query") =>
            /\ Op("load_job", TRUE) \in Range(log)
            /\ Op("insert_job", TRUE) \in Range(log)
            /\ Op("merge_job", TRUE) \in Range(log)
    /\ Len(scheduled) <= run
    /\ Len(DDLs) <= Len(DDLOrder)
    /\ \A i \in DOMAIN DDLs :
            /\ DDLs[i].op = DDLOrder[i]
            /\ i < Len(DDLs) => DDLs[i].ok
    /\ FetchStarted => DDLs = [i \in 1..3 |-> Op(DDLOrder[i], TRUE)]
    /\ Jobs # <<>> => FetchStarted

C12_Witness ==
    /\ pc = "done"
    /\ Len(requests) > 1
    /\ Jobs = [i \in 1..4 |-> Op(JobOrder[i], TRUE)]
    /\ Len(scheduled) = run
    /\ run = 2


-----------------------------------------------------------------------------
(* The descriptor after construction *)

\* the warehouse type process_metadata resolved for each visible property
ResolvedTypes ==
    [i \in DOMAIN VisibleProperties |-> data_type_mapping_get(VisibleProperties[i].Type)]

DescriptorTypes == [i \in DOMAIN parsed_metadata.fields |-> parsed_metadata.fields[i].type]

\* C13: at every step of the run after process_metadata, create_bq_raw_table
\* and the steps after it included, the descriptor gives each field the
\* warehouse type that process_metadata resolved for it.
C13_DescriptorNotMutated == Parsed => DescriptorTypes = ResolvedTypes

====
